---- MODULE Spec2Model ----
(***************************************************************************)
(* A model of the two-pass Hack assembler of src/src/assembler.rs.        *)
(*                                                                         *)
(* Source text, symbols and output words are TLA+ strings, handled        *)
(* character by character the way the Rust code handles them (split,      *)
(* trim, starts_with, parse::<i16>, format!("{:0>16b}")).                   *)
(* assemble() is run over each file of `files` in turn; its three loops    *)
(* (parse_file, gen_symbol_table, parse_command_table) advance one         *)
(* iteration per step.                                                     *)
(***************************************************************************)
EXTENDS Integers, Sequences, FiniteSets, TLC

VARIABLES files, cur, pc, idx, rom_idx, command_table, symbol_table, hack, exit

vars == <<files, cur, pc, idx, rom_idx, command_table, symbol_table, hack, exit>>

-----------------------------------------------------------------------------
(* Bounds of the explored inputs                                           *)

MaxLines == 3

MaxDecoLines == 2

-----------------------------------------------------------------------------
(* Strings                                                                 *)

Ch(s, i) == SubSeq(s, i, i)

IsWhitespace(c) == c \in {" ", "\t", "\r"}

RECURSIVE TrimStart(_)
TrimStart(s) ==
  IF Len(s) > 0 /\ IsWhitespace(Ch(s, 1)) THEN TrimStart(SubSeq(s, 2, Len(s))) ELSE s

RECURSIVE TrimEnd(_)
TrimEnd(s) ==
  IF Len(s) > 0 /\ IsWhitespace(Ch(s, Len(s))) THEN TrimEnd(SubSeq(s, 1, Len(s) - 1)) ELSE s

\* str::trim
Trim(s) == TrimEnd(TrimStart(s))

\* str::starts_with / str::ends_with
StartsWith(s, p) == Len(s) >= Len(p) /\ SubSeq(s, 1, Len(p)) = p

EndsWith(s, p) == Len(s) >= Len(p) /\ SubSeq(s, Len(s) - Len(p) + 1, Len(s)) = p

\* position of the first occurrence of p in s at or after i, 0 if none
RECURSIVE FindFrom(_, _, _)
FindFrom(s, p, i) ==
  IF i + Len(p) - 1 > Len(s) THEN 0
  ELSE IF SubSeq(s, i, i + Len(p) - 1) = p THEN i
  ELSE FindFrom(s, p, i + 1)

\* str::split(p).collect(): every piece between occurrences of p
RECURSIVE Split(_, _)
Split(s, p) ==
  LET k == FindFrom(s, p, 1) IN
  IF k = 0 THEN <<s>>
  ELSE <<SubSeq(s, 1, k - 1)>> \o Split(SubSeq(s, k + Len(p), Len(s)), p)

-----------------------------------------------------------------------------
(* Numbers: parse::<i16> and format!("{:0>16b}")                            *)

I16Min == -32768

I16Max == 32767

Digits == <<"0", "1", "2", "3", "4", "5", "6", "7", "8", "9">>

IsDigit(c) == \E d \in 1..10 : Digits[d] = c

DigitVal(c) == (CHOOSE d \in 1..10 : Digits[d] = c) - 1

ParseErr == [ok |-> FALSE, val |-> 0]

\* accumulates the digits of s onto acc, away from zero in the direction of sign;
\* fails on a non-digit and on leaving the i16 range
RECURSIVE ParseDigits(_, _, _)
ParseDigits(s, sign, acc) ==
  IF Len(s) = 0 THEN [ok |-> TRUE, val |-> acc]
  ELSE IF ~IsDigit(Ch(s, 1)) THEN ParseErr
  ELSE LET next == acc * 10 + sign * DigitVal(Ch(s, 1)) IN
       IF next < I16Min \/ next > I16Max THEN ParseErr
       ELSE ParseDigits(SubSeq(s, 2, Len(s)), sign, next)

\* symbol.parse::<i16>(): optional sign, then one or more decimal digits
ParseI16(s) ==
  IF Len(s) = 0 THEN ParseErr
  ELSE IF Ch(s, 1) \in {"+", "-"}
       THEN IF Len(s) = 1 THEN ParseErr
            ELSE ParseDigits(SubSeq(s, 2, Len(s)), IF Ch(s, 1) = "-" THEN -1 ELSE 1, 0)
       ELSE ParseDigits(s, 1, 0)

\* the binary digits of a natural number, no leading zeros ("0" for 0)
RECURSIVE ToBinary(_)
ToBinary(n) ==
  IF n < 2 THEN Digits[n + 1]
  ELSE ToBinary(n \div 2) \o Digits[(n % 2) + 1]

RECURSIVE PadLeft(_, _, _)
PadLeft(s, c, w) == IF Len(s) >= w THEN s ELSE PadLeft(c \o s, c, w)

\* faulty variant of FormatAddress: the fill to 16 columns is left out
FormatAddress_NoFill(address) == ToBinary(address % 65536) \o "\n"

\* format!("{:0>16b}\n", address) for an i16: the two's complement bit pattern,
\* right-aligned in 16 columns filled with '0'
FormatAddress(address) == PadLeft(ToBinary(address % 65536), "0", 16) \o "\n"

\* format!("{i}") for a non-negative integer
RECURSIVE ToDecimal(_)
ToDecimal(n) ==
  IF n < 10 THEN Digits[n + 1]
  ELSE ToDecimal(n \div 10) \o Digits[(n % 10) + 1]

\* i16 `+= 1` (two's complement wrap of a release build)
Inc16(x) == ((x + 1 + 32768) % 65536) - 32768

-----------------------------------------------------------------------------
(* Commands                                                                *)

None == [some |-> FALSE, val |-> ""]

Some(s) == [some |-> TRUE, val |-> s]

Command(line, type, rom, symbol, comp, jump, dest) ==
  [line_orig |-> line, command_type |-> type, rom_idx |-> rom,
   symbol |-> symbol, comp |-> comp, jump |-> jump, dest |-> dest]

\* faulty variant of parse_c_line: the fields are not trimmed
parse_c_line_NoTrim(line, rom) ==
  LET split_jump == Split(line, ";")
      jump == IF Len(split_jump) > 1 THEN Some(split_jump[2]) ELSE None
      split_dest == Split(split_jump[1], "=")
      dest == IF Len(split_dest) > 1 THEN Some(split_dest[1]) ELSE None
      comp == IF Len(split_dest) > 1 THEN Some(split_dest[2]) ELSE Some(split_dest[1])
  IN Command(line, "C", rom, None, comp, jump, dest)

\* parse_c_line: the command built from a C line (rom_idx is advanced by the caller)
parse_c_line(line, rom) ==
  LET split_jump == Split(line, ";")
      jump == IF Len(split_jump) > 1 THEN Some(Trim(split_jump[2])) ELSE None
      split_dest == Split(split_jump[1], "=")
      dest == IF Len(split_dest) > 1 THEN Some(Trim(split_dest[1])) ELSE None
      comp == IF Len(split_dest) > 1 THEN Some(Trim(split_dest[2]))
              ELSE Some(Trim(split_dest[1]))
  IN Command(line, "C", rom, None, comp, jump, dest)

\* parse_line: the command of a cleaned line and the ROM counter after it
parse_line(line, rom) ==
  IF StartsWith(line, "@")
    THEN [command |-> Command(line, "A", rom, Some(SubSeq(line, 2, Len(line))), None, None, None),
          rom_idx |-> Inc16(rom)]
  ELSE IF StartsWith(line, "(") /\ EndsWith(line, ")")
    THEN [command |-> Command(line, "L", rom, Some(SubSeq(line, 2, Len(line) - 1)), None, None, None),
          rom_idx |-> rom]
  ELSE [command |-> parse_c_line(line, rom), rom_idx |-> Inc16(rom)]

\* faulty variant of CleanLine: the comment is not cut off
CleanLine_KeepsComment(line) == Trim(line)

\* parse_file, line 68: line.split("//").next().unwrap().trim()
CleanLine(line) == Trim(Split(line, "//")[1])

-----------------------------------------------------------------------------
(* Symbol table                                                            *)

\* HashMap::insert: adds the key or replaces its value
Insert(map, k, v) == [x \in (DOMAIN map) \cup {k} |-> IF x = k THEN v ELSE map[x]]

EmptyMap == [x \in {} |-> 0]

FirstRamIdx == 16

RECURSIVE AddRegisters(_, _)
AddRegisters(map, i) ==
  IF i >= 16 THEN map
  ELSE AddRegisters(Insert(map, "R" \o ToDecimal(i), i), i + 1)

add_default_symbols(map) ==
  LET m1 == Insert(map, "SP", 0)
      m2 == Insert(m1, "LCL", 1)
      m3 == Insert(m2, "ARG", 2)
      m4 == Insert(m3, "THIS", 3)
      m5 == Insert(m4, "THAT", 4)
      m6 == Insert(m5, "SCREEN", 16384)
      m7 == Insert(m6, "KBD", 24576)
  IN AddRegisters(m7, 0)

\* faulty variant of InsertLabel: the label is recorded one slot too far
InsertLabel_NextSlot(st, command) ==
  IF command.command_type = "L"
    THEN [st EXCEPT !.map = Insert(st.map, command.symbol.val, command.rom_idx + 1)]
    ELSE st

\* gen_symbol_table, loop body: an L-command records its label at its ROM index
InsertLabel(st, command) ==
  IF command.command_type = "L"
    THEN [st EXCEPT !.map = Insert(st.map, command.symbol.val, command.rom_idx)]
    ELSE st

\* faulty variant of handle_a_symbol: the address returned for a new variable is
\* the cursor after the increment
handle_a_symbol_AfterIncrement(symbol, st) ==
  IF symbol \in DOMAIN st.map
    THEN [address |-> st.map[symbol], table |-> st]
    ELSE [address |-> Inc16(st.next_ram_idx),
          table |-> [map |-> Insert(st.map, symbol, st.next_ram_idx),
                     next_ram_idx |-> Inc16(st.next_ram_idx)]]

\* faulty variant of handle_a_symbol: the cursor is not advanced
handle_a_symbol_NoIncrement(symbol, st) ==
  IF symbol \in DOMAIN st.map
    THEN [address |-> st.map[symbol], table |-> st]
    ELSE [address |-> st.next_ram_idx,
          table |-> [map |-> Insert(st.map, symbol, st.next_ram_idx),
                     next_ram_idx |-> st.next_ram_idx]]

\* handle_a_symbol: the address of the symbol and the table afterwards
handle_a_symbol(symbol, st) ==
  IF symbol \in DOMAIN st.map
    THEN [address |-> st.map[symbol], table |-> st]
    ELSE [address |-> Inc16(st.next_ram_idx) - 1,
          table |-> [map |-> Insert(st.map, symbol, st.next_ram_idx),
                     next_ram_idx |-> Inc16(st.next_ram_idx)]]

-----------------------------------------------------------------------------
(* Encoders                                                                *)

JumpTable ==
  "JGT" :> "001" @@ "JEQ" :> "010" @@ "JGE" :> "011" @@ "JLT" :> "100" @@
  "JNE" :> "101" @@ "JLE" :> "110" @@ "JMP" :> "111"

DestTable ==
  "M" :> "001" @@ "D" :> "010" @@ "MD" :> "011" @@ "A" :> "100" @@
  "AM" :> "101" @@ "AD" :> "110" @@ "AMD" :> "111"

CompTable ==
  "0" :> "0101010" @@ "1" :> "0111111" @@ "-1" :> "0111010" @@ "D" :> "0001100" @@
  "A" :> "0110000" @@ "!D" :> "0001101" @@ "!A" :> "0110001" @@ "-D" :> "0001111" @@
  "-A" :> "0110011" @@ "D+1" :> "0011111" @@ "A+1" :> "0110111" @@ "D-1" :> "0001110" @@
  "A-1" :> "0110010" @@ "D+A" :> "0000010" @@ "D-A" :> "0010011" @@ "A-D" :> "0000111" @@
  "D&A" :> "0000000" @@ "D|A" :> "0010101" @@ "M" :> "1110000" @@ "!M" :> "1110001" @@
  "-M" :> "1110011" @@ "M+1" :> "1110111" @@ "M-1" :> "1110010" @@ "D+M" :> "1000010" @@
  "D-M" :> "1010011" @@ "M-D" :> "1000111" @@ "D&M" :> "1000000" @@ "D|M" :> "1010101"

Panic == [ok |-> FALSE, bits |-> ""]

Bits(b) == [ok |-> TRUE, bits |-> b]

\* parse_jump: an absent jump is 000, an unknown one reaches unreachable!()
parse_jump(command) ==
  IF ~command.jump.some THEN Bits("000")
  ELSE IF command.jump.val \in DOMAIN JumpTable THEN Bits(JumpTable[command.jump.val])
  ELSE Panic

parse_dest(command) ==
  IF ~command.dest.some THEN Bits("000")
  ELSE IF command.dest.val \in DOMAIN DestTable THEN Bits(DestTable[command.dest.val])
  ELSE Panic

\* parse_comp: expect() panics on an absent comp, unreachable!() on an unknown one
parse_comp(command) ==
  IF ~command.comp.some THEN Panic
  ELSE IF command.comp.val \in DOMAIN CompTable THEN Bits(CompTable[command.comp.val])
  ELSE Panic

\* parse_c_command: the line written, unless one of the three lookups panics first
parse_c_command(command) ==
  LET comp == parse_comp(command)
      dest == parse_dest(command)
      jump == parse_jump(command)
  IN IF comp.ok /\ dest.ok /\ jump.ok
       THEN Bits("111" \o comp.bits \o dest.bits \o jump.bits \o "\n")
       ELSE Panic

\* parse_a_command: the line written and the symbol table afterwards
parse_a_command(command, st) ==
  LET if_number == ParseI16(command.symbol.val)
      resolved == handle_a_symbol(command.symbol.val, st)
  IN IF if_number.ok
       THEN [binary_str |-> FormatAddress(if_number.val), table |-> st]
       ELSE [binary_str |-> FormatAddress(resolved.address), table |-> resolved.table]

-----------------------------------------------------------------------------
(* Inputs                                                                  *)

\* source lines of the explored programs: numeric, signed, predefined, variable
\* and label A-commands, label definitions (ordinary, predefined name, numeral),
\* well-formed and malformed C-commands, a comment line
SourceLines ==
  {"@5", "@-1", "@SP", "@a", "@b", "@L",
   "(L)", "(SP)", "(5)",
   "D=M", "MD=D+1;JGT", "D;JGT;JMP", "A=D=M", "D=Q",
   "// c"}

SeqsUpTo(S, n) == UNION {[1..k -> S] : k \in 1..n}

Programs == SeqsUpTo(SourceLines, MaxLines)

\* every legal C-command in compact form: [dest=]comp[;jump]
CompactCLines ==
  {d \o c \o j : d \in {""} \cup {x \o "=" : x \in DOMAIN DestTable},
                 c \in DOMAIN CompTable,
                 j \in {""} \cup {";" \o x : x \in DOMAIN JumpTable}}

InsertAt(s, k, w) == SubSeq(s, 1, k) \o w \o SubSeq(s, k + 1, Len(s))

\* a gap of the line that touches a field boundary: the ends, '=' and ';'
IsFieldBoundary(s, k) ==
  \/ k = 0
  \/ k = Len(s)
  \/ Ch(s, k) \in {"=", ";"}
  \/ Ch(s, k + 1) \in {"=", ";"}

\* the line with w inserted at every field boundary, from the last gap down to gap k
RECURSIVE FillBoundaries(_, _, _)
FillBoundaries(s, w, k) ==
  IF k > Len(s) THEN s
  ELSE LET rest == FillBoundaries(s, w, k + 1)
       IN IF IsFieldBoundary(s, k) THEN InsertAt(rest, k, w) ELSE rest

\* the line with extra spaces/tabs at field boundaries only: one space or tab at
\* one boundary, or a run of whitespace at every boundary at once
BoundaryVariants(s) ==
  {InsertAt(s, k, w) : k \in {g \in 0..Len(s) : IsFieldBoundary(s, g)}, w \in {" ", "\t"}}
    \cup {FillBoundaries(s, " ", 0), FillBoundaries(s, "\t ", 0)}

\* the line with one space or tab inside a field
InnerVariants(s) ==
  {InsertAt(s, k, w) : k \in {g \in 0..Len(s) : ~IsFieldBoundary(s, g)}, w \in {" ", "\t"}}

\* the line with extra spaces/tabs anywhere inside it
WhitespaceVariants(s) == BoundaryVariants(s) \cup InnerVariants(s)

\* lines of the programs that are decorated with comments and blank lines
PlainLines == {"@2", "@a", "@L", "(L)", "D=A"}

\* a statement as it stands, with a trailing comment, after a blank line,
\* after a whole-line comment
Decorations(line) ==
  {<<line>>, <<line \o " // @x">>, <<"", line>>, <<"\t// (L)", line>>}

RECURSIVE CommentVariants(_)
CommentVariants(file) ==
  IF Len(file) = 0 THEN {<<>>}
  ELSE {d \o rest : d \in Decorations(Head(file)), rest \in CommentVariants(Tail(file))}

-----------------------------------------------------------------------------
(* State                                                                   *)
(*   files          the source files handed to assemble(), in order        *)
(*   cur            the file being assembled (0 before the first call)     *)
(*   pc             the loop assemble() is in: "idle" outside a call,      *)
(*                  "parse_file", "gen_symbol_table", "parse_command_table",*)
(*                  "panicked" after a panic                               *)
(*   idx            position of the running loop in its sequence           *)
(*   rom_idx        parse_file's ROM counter                               *)
(*   command_table  the Vec<Command> built by parse_file                   *)
(*   symbol_table   the SymbolTable: map and next_ram_idx                  *)
(*   hack           the lines written to each file's binary file          *)
(*   exit           how each call ended: "none" yet, "ok", "panic"         *)

NewSymbolTable == [map |-> EmptyMap, next_ram_idx |-> FirstRamIdx]

InitState(fs) ==
  /\ files = fs
  /\ cur = 0
  /\ pc = "idle"
  /\ idx = 0
  /\ rom_idx = 0
  /\ command_table = <<>>
  /\ symbol_table = NewSymbolTable
  /\ hack = [f \in 1..Len(fs) |-> <<>>]
  /\ exit = [f \in 1..Len(fs) |-> "none"]

Init == \E f \in Programs : InitState(<<f>>)

\* a compact C-command and the same command with whitespace inserted, or a
\* program and the same program with comments and blank lines added
InitPairs ==
  \/ \E c \in CompactCLines : \E v \in WhitespaceVariants(c) : InitState(<< <<c>>, <<v>> >>)
  \/ \E f \in SeqsUpTo(PlainLines, MaxDecoLines) :
       \E v \in CommentVariants(f) : InitState(<<f, v>>)

\* assemble() is called on the next file; parse_file opens it
Assemble ==
  /\ pc \in {"idle", "panicked"}
  /\ cur < Len(files)
  /\ cur' = cur + 1
  /\ pc' = "parse_file"
  /\ idx' = 1
  /\ rom_idx' = 0
  /\ command_table' = <<>>
  /\ symbol_table' = NewSymbolTable
  /\ UNCHANGED <<files, hack, exit>>

\* parse_file, one iteration: clean the line, drop it if empty, else parse it
ReadLine ==
  /\ pc = "parse_file"
  /\ idx <= Len(files[cur])
  /\ LET line == CleanLine(files[cur][idx])
         parsed == parse_line(line, rom_idx)
     IN IF line = ""
          THEN UNCHANGED <<command_table, rom_idx>>
          ELSE /\ command_table' = Append(command_table, parsed.command)
               /\ rom_idx' = parsed.rom_idx
  /\ idx' = idx + 1
  /\ UNCHANGED <<files, cur, pc, symbol_table, hack, exit>>

\* parse_file returns; gen_symbol_table creates the table and seeds it
SeedSymbolTable ==
  /\ pc = "parse_file"
  /\ idx > Len(files[cur])
  /\ symbol_table' = [NewSymbolTable EXCEPT !.map = add_default_symbols(@)]
  /\ pc' = "gen_symbol_table"
  /\ idx' = 1
  /\ UNCHANGED <<files, cur, rom_idx, command_table, hack, exit>>

\* gen_symbol_table, one iteration over the command table
RecordLabel ==
  /\ pc = "gen_symbol_table"
  /\ idx <= Len(command_table)
  /\ symbol_table' = InsertLabel(symbol_table, command_table[idx])
  /\ idx' = idx + 1
  /\ UNCHANGED <<files, cur, pc, rom_idx, command_table, hack, exit>>

\* gen_symbol_table returns; parse_command_table creates the binary file
CreateBinaryFile ==
  /\ pc = "gen_symbol_table"
  /\ idx > Len(command_table)
  /\ hack' = [hack EXCEPT ![cur] = <<>>]
  /\ pc' = "parse_command_table"
  /\ idx' = 1
  /\ UNCHANGED <<files, cur, rom_idx, command_table, symbol_table, exit>>

\* parse_command_table, iteration on an A-command
EmitA ==
  /\ pc = "parse_command_table"
  /\ idx <= Len(command_table)
  /\ command_table[idx].command_type = "A"
  /\ LET r == parse_a_command(command_table[idx], symbol_table)
     IN /\ hack' = [hack EXCEPT ![cur] = Append(@, r.binary_str)]
        /\ symbol_table' = r.table
  /\ idx' = idx + 1
  /\ UNCHANGED <<files, cur, pc, rom_idx, command_table, exit>>

\* parse_command_table, iteration on a C-command: a line is written, or a
\* lookup panics before anything is written
EmitC ==
  /\ pc = "parse_command_table"
  /\ idx <= Len(command_table)
  /\ command_table[idx].command_type = "C"
  /\ LET r == parse_c_command(command_table[idx])
     IN IF r.ok
          THEN /\ hack' = [hack EXCEPT ![cur] = Append(@, r.bits)]
               /\ idx' = idx + 1
               /\ UNCHANGED <<pc, exit>>
          ELSE /\ pc' = "panicked"
               /\ exit' = [exit EXCEPT ![cur] = "panic"]
               /\ UNCHANGED <<hack, idx>>
  /\ UNCHANGED <<files, cur, rom_idx, command_table, symbol_table>>

\* faulty variant of SkipL: a line is written for the L-command
SkipL_WritesLine ==
  /\ pc = "parse_command_table"
  /\ idx <= Len(command_table)
  /\ command_table[idx].command_type = "L"
  /\ hack' = [hack EXCEPT ![cur] = Append(@, FormatAddress(command_table[idx].rom_idx))]
  /\ idx' = idx + 1
  /\ UNCHANGED <<files, cur, pc, rom_idx, command_table, symbol_table, exit>>

\* parse_command_table, iteration on an L-command: nothing is written
SkipL ==
  /\ pc = "parse_command_table"
  /\ idx <= Len(command_table)
  /\ command_table[idx].command_type = "L"
  /\ idx' = idx + 1
  /\ UNCHANGED <<files, cur, pc, rom_idx, command_table, symbol_table, hack, exit>>

\* parse_command_table and assemble() return
Return ==
  /\ pc = "parse_command_table"
  /\ idx > Len(command_table)
  /\ pc' = "idle"
  /\ exit' = [exit EXCEPT ![cur] = "ok"]
  /\ UNCHANGED <<files, cur, idx, rom_idx, command_table, symbol_table, hack>>

Next ==
  \/ Assemble
  \/ ReadLine
  \/ SeedSymbolTable
  \/ RecordLabel
  \/ CreateBinaryFile
  \/ EmitA
  \/ EmitC
  \/ SkipL
  \/ Return

Spec == Init /\ [][Next]_vars

SpecPairs == InitPairs /\ [][Next]_vars

-----------------------------------------------------------------------------
(* Vocabulary of the properties                                            *)

\* the predefined symbols and their addresses
Predefined ==
  [n \in {"SP", "LCL", "ARG", "THIS", "THAT", "SCREEN", "KBD"}
         \cup {"R" \o ToDecimal(i) : i \in 0..15} |->
     CASE n = "SP" -> 0
       [] n = "LCL" -> 1
       [] n = "ARG" -> 2
       [] n = "THIS" -> 3
       [] n = "THAT" -> 4
       [] n = "SCREEN" -> 16384
       [] n = "KBD" -> 24576
       [] OTHER -> CHOOSE i \in 0..15 : n = "R" \o ToDecimal(i)]

\* command p of the current file has been through Pass 2 and its line written
Emitted(p) ==
  /\ pc \in {"parse_command_table", "idle", "panicked"}
  /\ p \in 1..Len(command_table)
  /\ p < idx

\* the number of A/C commands before position p of the command table
SlotsBefore(p) == Cardinality({j \in 1..(p - 1) : command_table[j].command_type # "L"})

\* the output line of the A/C command at position p
LineOf(p) == hack[cur][SlotsBefore(p) + 1]

\* the word of an output line as a number
RECURSIVE WordValue(_, _)
WordValue(line, k) ==
  IF k = 0 THEN 0 ELSE 2 * WordValue(line, k - 1) + (IF Ch(line, k) = "1" THEN 1 ELSE 0)

AddressOf(p) == WordValue(LineOf(p), 16)

IsA(p) == command_table[p].command_type = "A"

IsL(p) == command_table[p].command_type = "L"

IsC(p) == command_table[p].command_type = "C"

SymbolOf(p) == command_table[p].symbol.val

LabelNames == {SymbolOf(q) : q \in {j \in 1..Len(command_table) : IsL(j)}}

\* an A-command symbol that is a variable: not a number, not predefined, not a label
IsVariable(s) ==
  /\ ~ParseI16(s).ok
  /\ s \notin DOMAIN Predefined
  /\ s \notin LabelNames

\* position of the first A-command that names s
FirstUse(s) == CHOOSE p \in 1..Len(command_table) :
                 /\ IsA(p) /\ SymbolOf(p) = s
                 /\ \A j \in 1..(p - 1) : ~(IsA(j) /\ SymbolOf(j) = s)

\* the distinct variables first used before position p
VariablesBefore(p) ==
  {SymbolOf(j) : j \in {i \in 1..(p - 1) : IsA(i) /\ IsVariable(SymbolOf(i))}}

-----------------------------------------------------------------------------
(* C1  Predefined priority                                                 *)

\* C1: once the table is seeded, every predefined symbol is in it with its fixed
\* address, whatever labels and variables the program has, and every emitted
\* A-command that names a predefined symbol carries that address.
C1_PredefinedKeepAddress ==
  /\ pc \in {"gen_symbol_table", "parse_command_table"} =>
       \A n \in DOMAIN Predefined :
         n \in DOMAIN symbol_table.map /\ symbol_table.map[n] = Predefined[n]
  /\ \A p \in 1..Len(command_table) :
       (Emitted(p) /\ IsA(p) /\ SymbolOf(p) \in DOMAIN Predefined) =>
         AddressOf(p) = Predefined[SymbolOf(p)]

-----------------------------------------------------------------------------
(* C2  Label forward reference                                             *)

\* C2 as stated: an emitted @L that precedes a definition (L) carries the ROM
\* index recorded for that (L), for any label L.
C2_ForwardReferenceAnyLabel ==
  \A p, q \in 1..Len(command_table) :
    (Emitted(p) /\ IsA(p) /\ IsL(q) /\ p < q /\ SymbolOf(p) = SymbolOf(q)) =>
      LineOf(p) = FormatAddress(command_table[q].rom_idx)

\* the last definition of the label of L-command q
IsLastDefinition(q) ==
  \A j \in (q + 1)..Len(command_table) : ~(IsL(j) /\ SymbolOf(j) = SymbolOf(q))

\* C2 amended: for a label L that does not parse as an i16 numeral, an emitted @L
\* that precedes the last definition (L) carries the ROM index recorded for it;
\* the index recorded for any L-command is the number of A/C commands before it,
\* and the A/C command directly after it carries the same index.
C2_ForwardReference ==
  /\ \A p, q \in 1..Len(command_table) :
       (Emitted(p) /\ IsA(p) /\ IsL(q) /\ p < q /\ SymbolOf(p) = SymbolOf(q)
          /\ ~ParseI16(SymbolOf(q)).ok /\ IsLastDefinition(q)) =>
         LineOf(p) = FormatAddress(command_table[q].rom_idx)
  /\ \A q \in 1..Len(command_table) :
       IsL(q) =>
         /\ command_table[q].rom_idx = SlotsBefore(q)
         /\ (q < Len(command_table) /\ ~IsL(q + 1)) =>
              command_table[q + 1].rom_idx = command_table[q].rom_idx

\* a forward reference to a label at a non-zero ROM index has been emitted
C2_Witness ==
  \E p, q \in 1..Len(command_table) :
    /\ Emitted(p) /\ IsA(p) /\ IsL(q) /\ p < q /\ SymbolOf(p) = SymbolOf(q)
    /\ ~ParseI16(SymbolOf(q)).ok /\ IsLastDefinition(q)
    /\ SymbolOf(q) \notin DOMAIN Predefined
    /\ command_table[q].rom_idx > 0
    /\ q < Len(command_table) /\ ~IsL(q + 1)

-----------------------------------------------------------------------------
(* C3  Variable allocation order                                           *)

\* C3: every emitted A-command that names a variable carries 16 + i, where i is
\* the number of distinct variables first used before the first use of its name.
C3_VariableAllocationOrder ==
  \A p \in 1..Len(command_table) :
    (Emitted(p) /\ IsA(p) /\ IsVariable(SymbolOf(p))) =>
      LineOf(p) = FormatAddress(16 + Cardinality(VariablesBefore(FirstUse(SymbolOf(p)))))

\* two distinct variables and a repeated use of the first have been emitted
C3_Witness ==
  \E p, q, r \in 1..Len(command_table) :
    /\ p < q /\ q < r /\ Emitted(r)
    /\ IsA(p) /\ IsA(q) /\ IsA(r)
    /\ IsVariable(SymbolOf(p)) /\ IsVariable(SymbolOf(q))
    /\ SymbolOf(p) # SymbolOf(q) /\ SymbolOf(r) = SymbolOf(p)
    /\ AddressOf(p) = 16 /\ AddressOf(q) = 17 /\ AddressOf(r) = 16

-----------------------------------------------------------------------------
(* C4  ROM-index monotonicity / output ordering                            *)

\* the cleaned, non-empty lines of a file, in source order
RECURSIVE Statements(_)
Statements(file) ==
  IF Len(file) = 0 THEN <<>>
  ELSE LET line == Trim(Split(Head(file), "//")[1])
       IN (IF line = "" THEN <<>> ELSE <<line>>) \o Statements(Tail(file))

IsLabelLine(line) == StartsWith(line, "(") /\ EndsWith(line, ")")

\* the encoding of the A/C command at position p under the final symbol table
EncodingOf(p) ==
  IF IsC(p) THEN parse_c_command(command_table[p]).bits
  ELSE IF ParseI16(SymbolOf(p)).ok THEN FormatAddress(ParseI16(SymbolOf(p)).val)
  ELSE FormatAddress(symbol_table.map[SymbolOf(p)])

\* C4: while Pass 2 runs, the command about to be encoded has as ROM index the
\* number of lines written so far; when assembly ends without a fatal error the
\* commands are the statements of the source in order, the k-th output line is
\* the encoding of the k-th A/C statement, whose ROM index is k (0-based), and
\* there are as many lines as A/C statements.
C4_OutputOrder ==
  /\ (pc = "parse_command_table" /\ idx <= Len(command_table) /\ ~IsL(idx)) =>
       command_table[idx].rom_idx = Len(hack[cur])
  /\ (cur > 0 /\ pc = "idle") =>
       LET stmts == Statements(files[cur])
           ac == SelectSeq(stmts, LAMBDA l : ~IsLabelLine(l))
       IN /\ Len(command_table) = Len(stmts)
          /\ \A p \in 1..Len(stmts) : command_table[p].line_orig = stmts[p]
          /\ Len(hack[cur]) = Len(ac)
          /\ \A p \in 1..Len(command_table) :
               ~IsL(p) =>
                 /\ command_table[p].rom_idx = SlotsBefore(p)
                 /\ command_table[p].line_orig = ac[SlotsBefore(p) + 1]
                 /\ LineOf(p) = EncodingOf(p)

\* an assembly ended well with an L-command between two different A/C commands
C4_Witness ==
  /\ cur > 0 /\ pc = "idle" /\ exit[cur] = "ok"
  /\ \E p \in 2..(Len(command_table) - 1) :
       /\ IsL(p) /\ IsA(p - 1) /\ IsC(p + 1)
       /\ Len(hack[cur]) = 2
       /\ hack[cur][1] # hack[cur][2]

-----------------------------------------------------------------------------
(* C5  Line width                                                          *)

IsWord(line) ==
  /\ Len(line) = 17
  /\ \A k \in 1..16 : Ch(line, k) \in {"0", "1"}
  /\ Ch(line, 17) = "\n"

\* C5: every line written so far to any binary file is 16 characters of '0'/'1'
\* followed by a newline.
C5_LineWidth == \A f \in 1..Len(hack) : \A k \in 1..Len(hack[f]) : IsWord(hack[f][k])

\* a numeric, a freshly allocated and a C-command line have been written
C5_Witness ==
  /\ pc = "parse_command_table"
  /\ \E p, q, r \in 1..Len(command_table) :
       /\ Emitted(p) /\ Emitted(q) /\ Emitted(r)
       /\ IsA(p) /\ ParseI16(SymbolOf(p)).ok
       /\ IsA(q) /\ IsVariable(SymbolOf(q))
       /\ IsC(r) /\ command_table[r].dest.some /\ command_table[r].jump.some

-----------------------------------------------------------------------------
(* C6  Whitespace inside a C-command                                       *)

\* both files have been assembled
BothAssembled == cur = 2 /\ pc \in {"idle", "panicked"}

IsCompactCFile(file) == Len(file) = 1 /\ file[1] \in CompactCLines

\* C6 as stated: a legal C-command with extra spaces/tabs anywhere inside it
\* assembles to the same word as its compact form.
C6_WhitespaceAnywhere ==
  (BothAssembled /\ IsCompactCFile(files[1]) /\ Len(files[2]) = 1
     /\ files[2][1] \in WhitespaceVariants(files[1][1])) =>
    /\ exit[2] = "ok"
    /\ hack[2] = hack[1]

\* C6 amended: a legal C-command with extra spaces/tabs at its field boundaries
\* (the ends of the line, either side of '=' and of ';') assembles to the same
\* word as its compact form.
C6_WhitespaceAtBoundaries ==
  (BothAssembled /\ IsCompactCFile(files[1]) /\ Len(files[2]) = 1
     /\ files[2][1] \in BoundaryVariants(files[1][1])) =>
    /\ exit[1] = "ok" /\ exit[2] = "ok"
    /\ Len(hack[1]) = 1
    /\ hack[2] = hack[1]

\* `D =M+1 ; JGT`-like spacing of a full dest=comp;jump command has been assembled
C6_Witness ==
  /\ BothAssembled
  /\ files[1] = <<"D=M+1;JGT">>
  /\ files[2] = <<" D = M+1 ; JGT ">>
  /\ hack[2] = <<"1111110111010001\n">>

-----------------------------------------------------------------------------
(* C7  Comment / blank invariance                                          *)

\* C7: a program and the same program with blank lines, whole-line comments and
\* trailing comments added assemble to the same output and end the same way.
C7_CommentBlankInvariance ==
  (BothAssembled /\ files[2] \in CommentVariants(files[1])) =>
    /\ exit[2] = exit[1]
    /\ hack[2] = hack[1]

\* a two-statement program decorated with a comment and an added line has been
\* assembled to two different words
C7_Witness ==
  /\ BothAssembled
  /\ files[2] \in CommentVariants(files[1])
  /\ Len(files[2]) > Len(files[1])
  /\ \E k \in 1..Len(files[2]) : FindFrom(files[2][k], "//", 2) > 0
  /\ exit[2] = "ok"
  /\ Len(files[1]) = 2
  /\ Len(hack[2]) = 2
  /\ hack[2][1] # hack[2][2]

-----------------------------------------------------------------------------
(* C8  Malformed C-commands are fatal                                      *)

\* the text before / after the first occurrence of c in s (absent: all / none)
BeforeFirst(s, c) ==
  LET k == FindFrom(s, c, 1) IN IF k = 0 THEN s ELSE SubSeq(s, 1, k - 1)

AfterFirst(s, c) ==
  LET k == FindFrom(s, c, 1) IN IF k = 0 THEN None ELSE Some(Trim(SubSeq(s, k + 1, Len(s))))

\* the line read as dest=comp;jump by its first ';' and first '=' is legal
IsLegalCLine(line) ==
  LET jump == AfterFirst(line, ";")
      left == BeforeFirst(line, ";")
      comp == AfterFirst(left, "=")
      dest == IF comp.some THEN Some(Trim(BeforeFirst(left, "="))) ELSE None
      c == IF comp.some THEN comp.val ELSE Trim(left)
  IN /\ jump.some => jump.val \in DOMAIN JumpTable
     /\ dest.some => dest.val \in DOMAIN DestTable
     /\ c \in DOMAIN CompTable

\* C8: a word is written for a C-command only if the line, split on its first
\* ';' and its first '=', has every field in the legal vocabulary; a program
\* with a C-command that is not legal in this sense ends in a fatal error.
C8_MalformedCIsFatal ==
  /\ \A p \in 1..Len(command_table) :
       (Emitted(p) /\ IsC(p)) => IsLegalCLine(command_table[p].line_orig)
  /\ (cur > 0 /\ pc = "idle") =>
       \A p \in 1..Len(command_table) :
         IsC(p) => IsLegalCLine(command_table[p].line_orig)

-----------------------------------------------------------------------------
(* C9  A-command high bit                                                  *)

\* C9: the word emitted for an A-command has most significant bit 0, that is,
\* its address is within 0..32767.
C9_HighBitZero ==
  \A p \in 1..Len(command_table) :
    (Emitted(p) /\ IsA(p)) => (Ch(LineOf(p), 1) = "0" /\ AddressOf(p) \in 0..32767)

-----------------------------------------------------------------------------
(* C10  Symbol-table frame during Pass 2                                   *)

\* the names allocated as variables: in the table, neither predefined nor labels
Allocated == (DOMAIN symbol_table.map) \ ((DOMAIN Predefined) \cup LabelNames)

\* the Pass 2 step at hand is an A-command whose name is absent from the table
AllocatesAt(p) ==
  /\ p <= Len(command_table) /\ IsA(p)
  /\ ~ParseI16(SymbolOf(p)).ok
  /\ SymbolOf(p) \notin DOMAIN symbol_table.map

Pass2Frame ==
  pc = "parse_command_table" =>
    /\ \A n \in DOMAIN symbol_table.map :
         n \in DOMAIN symbol_table.map' /\ symbol_table.map'[n] = symbol_table.map[n]
    /\ IF AllocatesAt(idx)
         THEN /\ DOMAIN symbol_table.map' = (DOMAIN symbol_table.map) \cup {SymbolOf(idx)}
              /\ symbol_table.map'[SymbolOf(idx)] = symbol_table.next_ram_idx
              /\ symbol_table.next_ram_idx' = symbol_table.next_ram_idx + 1
         ELSE symbol_table' = symbol_table

AllocationCount ==
  /\ symbol_table.next_ram_idx = 16 + Cardinality(Allocated)
  /\ \A v, w \in Allocated : v # w => symbol_table.map[v] # symbol_table.map[w]

\* C10: every Pass 2 step keeps the existing entries; only an A-command with an
\* absent name changes the table, adding name -> next_ram_idx and advancing
\* next_ram_idx by one; so next_ram_idx is 16 plus the number of variables
\* allocated, and allocated variables have distinct addresses.
C10_Pass2Frame == []AllocationCount /\ [][Pass2Frame]_vars

\* two variables have been allocated and another A-command resolved without
\* allocating
C10_Witness ==
  /\ pc = "parse_command_table"
  /\ Cardinality(Allocated) = 2
  /\ symbol_table.next_ram_idx = 18
  /\ \E p \in 1..Len(command_table) : Emitted(p) /\ IsA(p) /\ ~IsVariable(SymbolOf(p))

====
